---- MODULE Spec2Model ----
(***************************************************************************)
(* FormValidator (src/unnamed/part_000): a validator built from a record,  *)
(* rule registrations per field (addValidation), custom validators         *)
(* (addCustomValidator) and validate(), which fills the error map.         *)
(*                                                                         *)
(* JavaScript values are records tagged by their type; strings are         *)
(* sequences of one-character strings, objects (specs, the error map, the  *)
(* Map of fields) are functions whose DOMAIN is the set of keys present.   *)
(***************************************************************************)
EXTENDS Integers, Sequences, FiniteSets, TLC

\* ------------------------------------------------------------- bounds
\* Most rules registered on all fields together (validations.push is unbounded).
MaxRules == 3
\* Most custom validators stored (customValidators.push is unbounded).
MaxCustom == 1

\* ------------------------------------------------------ JavaScript values
JNull == [t |-> "null"]
Undefined == [t |-> "undefined"]
Str(s) == [t |-> "string", s |-> s]
Num(n) == [t |-> "number", n |-> n]
\* A Date: its calendar day and the time of day within it.
JDate(d, ms) == [t |-> "date", day |-> d, ms |-> ms]
Arr(n) == [t |-> "array", len |-> n]

\* An object literal {}: no keys.
EmptyObject == [k \in {} |-> Undefined]
\* obj[k], undefined when the key is absent.
Get(obj, k) == IF k \in DOMAIN obj THEN obj[k] ELSE Undefined
\* obj[k] = v
Put(obj, k, v) == [x \in DOMAIN obj \cup {k} |-> IF x = k THEN v ELSE obj[x]]
\* { ...a, ...b }
Spread(a, b) == [x \in DOMAIN a \cup DOMAIN b |-> IF x \in DOMAIN b THEN b[x] ELSE a[x]]

\* JavaScript's ToBoolean on the values of the model.
Truthy(v) ==
    CASE v.t = "null" -> FALSE
      [] v.t = "undefined" -> FALSE
      [] v.t = "string" -> Len(v.s) > 0
      [] v.t = "number" -> v.n # 0
      [] OTHER -> TRUE

\* String.prototype.trim() === "": every character is a space.
TrimIsEmpty(s) == \A i \in 1..Len(s) : s[i] = " "

\* ./isEmpty on a stored value: empty string/array/object/null/undefined
\* against populated values.
isEmpty(v) ==
    CASE v.t = "null" -> TRUE
      [] v.t = "undefined" -> TRUE
      [] v.t = "string" -> Len(v.s) = 0
      [] v.t = "array" -> v.len = 0
      [] OTHER -> FALSE

\* ./isEmpty on an object of the model (specs, a field error).
isEmptyObject(obj) == obj = Undefined \/ obj = JNull \/ DOMAIN obj = {}

\* ./isEmail, ./isStrongPassword, ./isPhoneNumber: total predicates of the
\* value; only a string can match.
HasChar(s, c) == \E i \in 1..Len(s) : s[i] = c
isEmail(v) == v.t = "string" /\ HasChar(v.s, "@")
isStrongPassword(v) == v.t = "string" /\ Len(v.s) >= 8
isPhoneNumber(v) == v.t = "string" /\ Len(v.s) > 0 /\ \A i \in 1..Len(v.s) : v.s[i] = "1"

\* ./clearTime: the date with its time of day zeroed.
clearTime(d) == JDate(d.day, 0)
\* moment(a).isBefore(b), moment(a).isAfter(b)
isBefore(a, b) == a.day < b.day \/ (a.day = b.day /\ a.ms < b.ms)
isAfter(a, b) == isBefore(b, a)

\* --------------------------------------------------------- validateField
\* What a call that raises yields instead of a result.
Thrown == [t |-> "TypeError"]
Err(code) == [errorCode |-> code]
ErrWith(code, key, bound) == [errorCode |-> code, specs |-> Put(EmptyObject, key, bound)]

\* case "noWhitespace": value && (value as string).trim() === "" ? ... : null
\* trim is a method of strings only: on any other truthy value the call raises.
noWhitespace(value) ==
    IF ~Truthy(value) THEN JNull
    ELSE IF value.t # "string" THEN Thrown
    ELSE IF TrimIsEmpty(value.s) THEN Err("isWhitespace") ELSE JNull

\* case "dateRange"
dateRange(value, specs) ==
    IF value.t = "date" THEN
        LET minErr == IF Truthy(Get(specs, "minDate"))
                           /\ isBefore(clearTime(value), clearTime(specs.minDate))
                      THEN ErrWith("beforeMinDate", "minDate", specs.minDate)
                      ELSE JNull
        IN IF minErr = JNull /\ Truthy(Get(specs, "maxDate"))
           THEN IF isAfter(clearTime(value), clearTime(specs.maxDate))
                THEN ErrWith("afterMaxDate", "maxDate", specs.maxDate)
                ELSE JNull
           ELSE minErr
    ELSE Err("invalidDate")

\* if (specs.minX) in the two numeric cases: the bound is used when truthy.
BoundUsed(bound) == Truthy(bound)

\* case "textLength"
textLength(value, specs) ==
    IF value.t = "string" THEN
        LET minErr == IF BoundUsed(Get(specs, "minLength"))
                           /\ Len(value.s) < specs.minLength.n
                      THEN ErrWith("lessThanMinLength", "minLength", specs.minLength)
                      ELSE JNull
        IN IF minErr = JNull /\ BoundUsed(Get(specs, "maxLength"))
           THEN IF Len(value.s) > specs.maxLength.n
                THEN ErrWith("moreThanMaxLength", "maxLength", specs.maxLength)
                ELSE JNull
           ELSE minErr
    ELSE Err("invalidInput")

\* case "valueRange"
valueRange(value, specs) ==
    IF value.t = "number" THEN
        LET minErr == IF BoundUsed(Get(specs, "minValue"))
                           /\ value.n < specs.minValue.n
                      THEN ErrWith("lessThanMinValue", "minValue", specs.minValue)
                      ELSE JNull
        IN IF minErr = JNull /\ BoundUsed(Get(specs, "maxValue"))
           THEN IF value.n > specs.maxValue.n
                THEN ErrWith("moreThanMaxValue", "maxValue", specs.maxValue)
                ELSE JNull
           ELSE minErr
    ELSE Err("invalidInput")

validateField(value, type, specs) ==
    CASE type = "required" -> IF isEmpty(value) THEN Err("empty") ELSE JNull
      [] type = "isDate" -> IF value.t = "date" THEN JNull ELSE Err("invalidDate")
      [] type = "noWhitespace" -> noWhitespace(value)
      [] type = "dateRange" -> dateRange(value, specs)
      [] type = "textLength" -> textLength(value, specs)
      [] type = "valueRange" -> valueRange(value, specs)
      [] type = "validEmail" -> IF isEmail(value) THEN JNull ELSE Err("invalidEmail")
      [] type = "strongPassword" -> IF isStrongPassword(value) THEN JNull ELSE Err("weakPassword")
      [] type = "isPhoneNumber" -> IF isPhoneNumber(value) THEN JNull ELSE Err("invalidPhoneNumber")
      [] OTHER -> JNull

ValidationTypes ==
    {"required", "isDate", "noWhitespace", "dateRange", "textLength",
     "valueRange", "validEmail", "strongPassword", "isPhoneNumber"}

isValidType(type) == type \in ValidationTypes

\* ------------------------------------------------------------------ state
VARIABLES
    formObject,        \* Map: field name -> ValidatorModelItem
    formObjectErrors,  \* the error map: field name -> field error
    customValidators,  \* the stored custom validators
    lastCall,          \* the method called last ("new" after construction)
    threw,             \* whether that call raised
    wasEmpty,          \* whether the error map had no entry when it began
    revalidated,       \* whether it was validate() called right after validate()
    skipped,           \* whether it was addValidation passing over a name that is no key
    appended           \* the rules it pushed on the fields' lists

vars ==
    <<formObject, formObjectErrors, customValidators,
      lastCall, threw, wasEmpty, revalidated, skipped, appended>>

\* new ValidatorModelItem(name, value)
ValidatorModelItem(name, value) ==
    [name |-> name, value |-> value, specs |-> EmptyObject, validations |-> <<>>]

\* ---------------------------------------------------------------- validate
\* The loop condition reading the whole error map instead of the field's entry.
HasAnyError(errors, name) == DOMAIN errors # {}

\* while (... && this.formObjectErrors[item.name]): the field has an entry.
HasError(errors, name) == name \in DOMAIN errors

\* One turn of the do-while and the turns after it; i counts from 1.
RECURSIVE DoWhile(_, _, _)
DoWhile(errors, item, i) ==
    LET fieldError == validateField(item.value, item.validations[i], item.specs)
    IN IF fieldError = Thrown THEN [errors |-> errors, threw |-> TRUE]
       ELSE LET recorded == IF ~isEmptyObject(fieldError)
                            THEN Put(errors, item.name, fieldError)
                            ELSE errors
            IN IF i + 1 <= Len(item.validations) /\ HasError(recorded, item.name)
               THEN DoWhile(recorded, item, i + 1)
               ELSE [errors |-> recorded, threw |-> FALSE]

\* The callback dropping the field's entry before it evaluates the rules.
ValidateItemFresh(errors, item) ==
    IF Len(item.validations) > 0
    THEN DoWhile([f \in DOMAIN errors \ {item.name} |-> errors[f]], item, 1)
    ELSE [errors |-> errors, threw |-> FALSE]

\* The callback of forEach on one item.
ValidateItem(errors, item) ==
    IF Len(item.validations) > 0
    THEN DoWhile(errors, item, 1)
    ELSE [errors |-> errors, threw |-> FALSE]

\* The block of validate() as it reads with the comment marks removed: each
\* stored validator's result goes to its error fields that have no entry yet.
RECURSIVE WriteTo(_, _, _, _)
WriteTo(errors, errorFields, result, form) ==
    IF errorFields = <<>> THEN errors
    ELSE LET field == Head(errorFields)
             written == IF field \in DOMAIN form /\ field \notin DOMAIN errors
                             /\ ~isEmptyObject(result)
                        THEN Put(errors, field, result)
                        ELSE errors
         IN WriteTo(written, Tail(errorFields), result, form)
RECURSIVE RunCustomValidatorsWired(_, _, _)
RunCustomValidatorsWired(errors, customs, form) ==
    IF customs = <<>> THEN errors
    ELSE RunCustomValidatorsWired(
             WriteTo(errors, Head(customs).errorFields, Head(customs).validator.result, form),
             Tail(customs), form)

\* The commented-out block of validate(): the stored custom validators are
\* not run, the error map is left as the fields' rules made it.
RunCustomValidators(errors, customs, form) == errors

\* Map.forEach visits the items in insertion order; a raise ends the visit.
RECURSIVE ForEach(_, _, _)
ForEach(errors, form, order) ==
    IF order = <<>> THEN [errors |-> errors, threw |-> FALSE]
    ELSE LET r == ValidateItem(errors, form[Head(order)])
         IN IF r.threw THEN r ELSE ForEach(r.errors, form, Tail(order))

\* validate(): the error map it leaves and whether it raised.
validate(errors, customs, form, order) ==
    LET r == ForEach(errors, form, order)
    IN IF r.threw THEN r
       ELSE [errors |-> RunCustomValidators(r.errors, customs, form), threw |-> FALSE]

\* ----------------------------------------------------------- addValidation
\* The callback replacing the field's specs by the call's instead of merging.
AddToFieldReplacing(form, field, type, specs) ==
    IF field \in DOMAIN form
    THEN [form EXCEPT ![field].validations = Append(@, type),
                      ![field].specs = IF ~isEmptyObject(specs) THEN specs ELSE @]
    ELSE form

\* The callback of fields.map on one field name.
AddToField(form, field, type, specs) ==
    IF field \in DOMAIN form
    THEN [form EXCEPT ![field].validations = Append(@, type),
                      ![field].specs = IF ~isEmptyObject(specs) THEN Spread(@, specs) ELSE @]
    ELSE form

RECURSIVE MapFields(_, _, _, _)
MapFields(form, fields, type, specs) ==
    IF fields = <<>> THEN form
    ELSE MapFields(AddToField(form, Head(fields), type, specs), Tail(fields), type, specs)

\* addValidation ignoring the whole call when it names a field that is no key.
addValidationAllKnown(form, fields, type, specs) ==
    IF isValidType(type) /\ Len(fields) > 0
          /\ \A i \in 1..Len(fields) : fields[i] \in DOMAIN form
    THEN MapFields(form, fields, type, specs)
    ELSE form

\* addValidation(fields, type, specs): the Map of fields it leaves.
addValidation(form, fields, type, specs) ==
    IF isValidType(type) /\ Len(fields) > 0
    THEN MapFields(form, fields, type, specs)
    ELSE form

\* ------------------------------------------------------ addCustomValidator
addCustomValidator(customs, fields, errorFields, validator) ==
    IF Len(fields) > 0 /\ Len(errorFields) > 0
    THEN Append(customs, [fields |-> fields, errorFields |-> errorFields, validator |-> validator])
    ELSE customs

\* ------------------------------------------------------------- constructor
\* The key order of the record given to the constructor (for ... in).
FieldOrder == <<"name", "age">>
KeyOrder(form) == SelectSeq(FieldOrder, LAMBDA f : f \in DOMAIN form)

\* new FormValidator(record): an empty record leaves the Map empty.
Constructor(record) ==
    IF ~isEmptyObject(record)
    THEN [f \in DOMAIN record |-> ValidatorModelItem(f, record[f])]
    ELSE EmptyObject

\* ------------------------------------------------------------------ inputs
Spaces == <<" ", " ">>
Email == <<"a", "@", "b">>
Digits == <<"1", "1", "1">>
Long == <<"a", "b", "c", "d", "e", "f", "g", "h", "@", "j", "k">>

\* Records of two fields, field lists a caller passes ("nick" is a key of no
\* record), and (type, specs) as the overloads of addValidation pair them,
\* with a type that is no validation type.
Records ==
    {EmptyObject,
     [name |-> Str(<<>>), age |-> Num(15)],
     [name |-> Str(Spaces), age |-> Num(15)],
     [name |-> Str(Long), age |-> Num(0)]}
FieldLists ==
    {<<>>, <<"name">>, <<"age">>, <<"nick">>, <<"name", "nick", "age">>}
Registrations ==
    {<<"noWhitespace", Undefined>>,
     <<"textLength", [maxLength |-> Num(10)]>>, <<"textLength", [maxLength |-> Num(1)]>>,
     <<"minLength", EmptyObject>>}

\* The custom validators a caller passes: the function stands for its result.
CustomLists == {<<>>, <<"name", "age">>}
ErrorLists == {<<>>, <<"age">>}
Validators == {[result |-> Err("invalidInput")]}

\* Records of one field of any type, and every rule kind registered on it.
KindRecords ==
    {[name |-> v] : v \in {JNull, Str(<<>>), Str(Spaces), Str(Email), Str(Digits),
                           Str(Long), Num(0), Num(15), JDate(2, 5), Arr(0)}}
KindLists == {<<>>, <<"name">>}
KindRegistrations ==
    {<<"required", Undefined>>, <<"isDate", Undefined>>, <<"noWhitespace", Undefined>>,
     <<"validEmail", Undefined>>, <<"strongPassword", Undefined>>,
     <<"isPhoneNumber", Undefined>>,
     <<"dateRange", [minDate |-> JDate(2, 9)]>>, <<"dateRange", [maxDate |-> JDate(1, 0)]>>,
     <<"textLength", [minLength |-> Num(3)]>>, <<"valueRange", [maxValue |-> Num(10)]>>}

\* Records of one string and the length bounds registered on it.
LengthRecords == {[name |-> Str(s)] : s \in {<<>>, Spaces, Digits, Long}}
LengthLists == {<<>>, <<"name">>, <<"nick", "name">>}
LengthRegistrations ==
    {<<"textLength", [minLength |-> Num(3)]>>, <<"textLength", [maxLength |-> Num(10)]>>,
     <<"textLength", [minLength |-> Num(1), maxLength |-> Num(2)]>>,
     <<"textLength", [minLength |-> Num(0)]>>,
     <<"required", EmptyObject>>}

\* Records of one number and the value bounds registered on it.
RangeRecords == {[age |-> Num(n)] : n \in {-1, 0, 1, 15}}
RangeLists == {<<>>, <<"age">>, <<"nick", "age">>}
RangeRegistrations ==
    {<<"valueRange", [minValue |-> Num(0)]>>, <<"valueRange", [minValue |-> Num(18)]>>,
     <<"valueRange", [minValue |-> Num(10)]>>, <<"valueRange", [maxValue |-> Num(0)]>>,
     <<"valueRange", [minValue |-> Num(-5), maxValue |-> Num(10)]>>,
     <<"valueRange", [maxValue |-> Num(-3)]>>,
     <<"required", EmptyObject>>}

\* How often a field is named in a list.
Count(fields, f) == Cardinality({i \in 1..Len(fields) : fields[i] = f})
\* The rules registered on all fields together.
RuleCount(form, order) ==
    IF order = <<>> THEN 0
    ELSE Len(form[Head(order)].validations)
         + (IF Len(order) > 1 THEN Len(form[order[2]].validations) ELSE 0)

\* ------------------------------------------------------------------ actions
InitOn(records) ==
    /\ \E record \in records : formObject = Constructor(record)
    /\ formObjectErrors = EmptyObject
    /\ customValidators = <<>>
    /\ lastCall = "new"
    /\ threw = FALSE
    /\ wasEmpty = TRUE
    /\ revalidated = FALSE
    /\ skipped = FALSE
    /\ appended = 0

AddValidation(fields, type, specs) ==
    LET form == addValidation(formObject, fields, type, specs)
        order == KeyOrder(formObject)
    IN /\ RuleCount(form, order) <= MaxRules
       /\ formObject' = form
       /\ lastCall' = "addValidation"
       /\ threw' = FALSE
       /\ wasEmpty' = (DOMAIN formObjectErrors = {})
       /\ revalidated' = FALSE
       /\ skipped' = \E i \in 1..Len(fields) : fields[i] \notin DOMAIN formObject
       /\ appended' = RuleCount(form, order) - RuleCount(formObject, order)
       /\ UNCHANGED <<formObjectErrors, customValidators>>

AddCustomValidator(fields, errorFields, validator) ==
    /\ Len(customValidators) < MaxCustom
    /\ customValidators' = addCustomValidator(customValidators, fields, errorFields, validator)
    /\ lastCall' = "addCustomValidator"
    /\ threw' = FALSE
    /\ wasEmpty' = (DOMAIN formObjectErrors = {})
    /\ revalidated' = FALSE
    /\ skipped' = FALSE
    /\ appended' = 0
    /\ UNCHANGED <<formObject, formObjectErrors>>

Validate ==
    LET r == validate(formObjectErrors, customValidators, formObject, KeyOrder(formObject))
    IN /\ formObjectErrors' = r.errors
       /\ threw' = r.threw
       /\ lastCall' = "validate"
       /\ wasEmpty' = (DOMAIN formObjectErrors = {})
       /\ revalidated' = (lastCall = "validate")
       /\ skipped' = FALSE
       /\ appended' = 0
       /\ UNCHANGED <<formObject, customValidators>>

NextOn(lists, registrations) ==
    \/ \E fields \in lists, reg \in registrations :
          AddValidation(fields, reg[1], reg[2])
    \/ \E fields \in CustomLists, errorFields \in ErrorLists, validator \in Validators :
          AddCustomValidator(fields, errorFields, validator)
    \/ Validate

Init == InitOn(Records)
Next == NextOn(FieldLists, Registrations)
Spec == Init /\ [][Next]_vars

\* The validator of a record of one field, with rules of every kind registered.
InitKinds == InitOn(KindRecords)
NextKinds == NextOn(KindLists, KindRegistrations)
SpecKinds == InitKinds /\ [][NextKinds]_vars

\* The validator of a record of one string, with length bounds registered.
InitLength == InitOn(LengthRecords)
NextLength == NextOn(LengthLists, LengthRegistrations)
SpecLength == InitLength /\ [][NextLength]_vars

\* The validator of a record of one number, with value bounds registered.
InitRange == InitOn(RangeRecords)
NextRange == NextOn(RangeLists, RangeRegistrations)
SpecRange == InitRange /\ [][NextRange]_vars

\* ------------------------------------------------------------------ claims
\* What rule i of a field yields on the field's stored value and merged specs.
Result(item, i) == validateField(item.value, item.validations[i], item.specs)
Passes(item, i) == Result(item, i) = JNull
Fails(item, i) == ~Passes(item, i) /\ Result(item, i) # Thrown
\* validate() was the last call, and it returned.
Validated == lastCall = "validate" /\ ~threw
\* The names of a list that are keys of the Map.
Known(fields) == SelectSeq(fields, LAMBDA f : f \in DOMAIN formObject)

\* C1: after validate() on a validator whose error map was empty, a field with
\* two failing rules A before B (A the first rule that fails) has an entry
\* carrying A's error code.
ShortCircuitOnFirstFailure ==
    (Validated /\ wasEmpty) =>
        \A f \in DOMAIN formObject :
            LET item == formObject[f]
            IN \A a, b \in 1..Len(item.validations) :
                  (a < b /\ Fails(item, a) /\ Fails(item, b)
                       /\ \A j \in 1..(a - 1) : Passes(item, j))
                  => (f \in DOMAIN formObjectErrors
                        /\ formObjectErrors[f].errorCode = Result(item, a).errorCode)

\* C2: after validate() on a validator whose error map was empty, a field whose
\* first rule passes and whose rule k is the first that fails has the error of
\* rule k as its entry.
ContinuePastPassingRules ==
    (Validated /\ wasEmpty) =>
        \A f \in DOMAIN formObject :
            LET item == formObject[f]
            IN \A k \in 2..Len(item.validations) :
                  (Fails(item, k) /\ \A j \in 1..(k - 1) : Passes(item, j))
                  => (f \in DOMAIN formObjectErrors /\ formObjectErrors[f] = Result(item, k))

\* C3: after a validate() that finds every rule of a field passing, the error
\* map has no entry for the field.
PassClearsPriorError ==
    Validated =>
        \A f \in DOMAIN formObject :
            LET item == formObject[f]
            IN (Len(item.validations) >= 1
                  /\ \A i \in 1..Len(item.validations) : Passes(item, i))
               => f \notin DOMAIN formObjectErrors

\* C4: validate() called right after validate() leaves the error map as the
\* first call left it.
ValidateIdempotent ==
    [][(lastCall = "validate" /\ lastCall' = "validate")
          => formObjectErrors' = formObjectErrors]_vars

RevalidatedWithErrors ==
    /\ lastCall = "validate"
    /\ revalidated
    /\ DOMAIN formObjectErrors # {}

\* C5: no call raises: validate() always returns.
EvaluationNeverFails == ~threw

\* C6: after validate(), a numeric field whose only rule is valueRange has the
\* entry lessThanMinValue (echoing minValue) iff minValue is supplied and the
\* value is below it, else moreThanMaxValue (echoing maxValue) iff maxValue is
\* supplied and the value is above it, else no entry.
ValueRangeBounds ==
    Validated =>
        \A f \in DOMAIN formObject :
            LET item == formObject[f]
                v == item.value.n
                sp == item.specs
            IN (item.validations = <<"valueRange">> /\ item.value.t = "number") =>
                  IF "minValue" \in DOMAIN sp /\ v < sp.minValue.n
                  THEN /\ f \in DOMAIN formObjectErrors
                       /\ formObjectErrors[f]
                            = [errorCode |-> "lessThanMinValue",
                               specs |-> [minValue |-> sp.minValue]]
                  ELSE IF "maxValue" \in DOMAIN sp /\ v > sp.maxValue.n
                  THEN /\ f \in DOMAIN formObjectErrors
                       /\ formObjectErrors[f]
                            = [errorCode |-> "moreThanMaxValue",
                               specs |-> [maxValue |-> sp.maxValue]]
                  ELSE f \notin DOMAIN formObjectErrors

SpecKeys == {"minLength", "maxLength", "minValue", "maxValue", "minDate", "maxDate"}
\* The call's keys overwritten, the other keys untouched, on every known field
\* the call names; the specs of the other fields left alone.
MergedOnCall(fields, type, specs) ==
    \A f \in DOMAIN formObject :
        IF Count(fields, f) > 0 /\ isValidType(type) /\ ~isEmptyObject(specs)
        THEN /\ DOMAIN formObject'[f].specs = DOMAIN formObject[f].specs \cup DOMAIN specs
             /\ \A k \in SpecKeys :
                   Get(formObject'[f].specs, k)
                     = IF k \in DOMAIN specs THEN specs[k] ELSE Get(formObject[f].specs, k)
        ELSE formObject'[f].specs = formObject[f].specs
\* After validate() returned: a string whose rules are all textLength, with
\* {minLength: 3, maxLength: 10} accumulated, has the entry of the bound it breaks.
BothBoundsEnforced ==
    Validated =>
        \A f \in DOMAIN formObject :
            LET item == formObject[f]
            IN (/\ item.value.t = "string"
                /\ Len(item.validations) >= 1
                /\ \A i \in 1..Len(item.validations) : item.validations[i] = "textLength"
                /\ item.specs = [minLength |-> Num(3), maxLength |-> Num(10)])
               => /\ Len(item.value.s) < 3 =>
                       (f \in DOMAIN formObjectErrors
                          /\ formObjectErrors[f]
                               = [errorCode |-> "lessThanMinLength",
                                  specs |-> [minLength |-> Num(3)]])
                  /\ Len(item.value.s) > 10 =>
                       (f \in DOMAIN formObjectErrors
                          /\ formObjectErrors[f]
                               = [errorCode |-> "moreThanMaxLength",
                                  specs |-> [maxLength |-> Num(10)]])

\* C7: an addValidation call with non-empty specs leaves on every known field
\* it names the accumulated specs with the call's keys overwritten and the
\* other keys untouched; and a string field whose rules are all textLength,
\* with minLength 3 and maxLength 10 accumulated, has after validate() the
\* entry lessThanMinLength when shorter than 3 and moreThanMaxLength when
\* longer than 10.
SpecsMergeAcrossRegistrations ==
    /\ []BothBoundsEnforced
    /\ [][\A fields \in LengthLists, reg \in LengthRegistrations :
             AddValidation(fields, reg[1], reg[2]) => MergedOnCall(fields, reg[1], reg[2])]_vars

MergedBoundsReported ==
    /\ Validated
    /\ "name" \in DOMAIN formObject
    /\ formObject["name"].value = Str(Long)
    /\ formObject["name"].validations = <<"textLength", "textLength">>
    /\ formObject["name"].specs = [minLength |-> Num(3), maxLength |-> Num(10)]
    /\ "name" \in DOMAIN formObjectErrors
    /\ formObjectErrors["name"].errorCode = "moreThanMaxLength"

NoUnknownKeys ==
    /\ "nick" \notin DOMAIN formObject
    /\ DOMAIN formObjectErrors \subseteq DOMAIN formObject
HasUnknown(fields) == \E i \in 1..Len(fields) : fields[i] \notin DOMAIN formObject
\* The Map as the call without the unknown names leaves it, the rule appended
\* to the list of every known field the call names.
DroppedOnCall(fields, type, specs) ==
    /\ formObject' = addValidation(formObject, Known(fields), type, specs)
    /\ DOMAIN formObject' = DOMAIN formObject
    /\ isValidType(type) =>
          \A f \in DOMAIN formObject :
              formObject'[f].validations
                = IF Count(fields, f) > 0
                  THEN Append(formObject[f].validations, type)
                  ELSE formObject[f].validations

\* C8: a name that is no key of the constructor's record never becomes a key
\* of the Map or of the error map; and an addValidation call naming such a
\* name leaves the Map as the call without the unknown names leaves it, every
\* known field it names having the rule appended to its list.
UnknownFieldsDropped ==
    /\ []NoUnknownKeys
    /\ [][skipped' =>
             \A fields \in FieldLists, reg \in Registrations :
                 (HasUnknown(fields)
                    /\ formObject' = addValidation(formObject, fields, reg[1], reg[2]))
                 => DroppedOnCall(fields, reg[1], reg[2])]_vars

KnownFieldsStillAppended ==
    /\ lastCall = "addValidation"
    /\ skipped
    /\ appended = 2
    /\ "nick" \notin DOMAIN formObject

StoredOnCall(fields, errorFields, validator) ==
    /\ (Len(fields) > 0 /\ Len(errorFields) > 0) =>
          customValidators'
            = Append(customValidators,
                     [fields |-> fields, errorFields |-> errorFields, validator |-> validator])
    /\ UNCHANGED <<formObject, formObjectErrors>>

EntriesBelongToRuledFields ==
    \A f \in DOMAIN formObjectErrors :
        f \in DOMAIN formObject /\ Len(formObject[f].validations) >= 1

====
